---- MODULE Spec2Model ----
(***************************************************************************)
(* Model of untangle.py: the LPAK bundle parser (LPAKParser) and the two   *)
(* consumers of its file list (action_list, action_extract).               *)
(*                                                                         *)
(* A bundle is a sequence of bytes (0..255).  File positions are 0-based   *)
(* as in Python; TLA+ sequences are 1-based, so byte k of the file is      *)
(* file[k + 1].                                                            *)
(***************************************************************************)
EXTENDS Integers, Sequences, FiniteSets, TLC

VARIABLES
    file,       \* bytes of the bundle being read (lpak)
    twin,       \* the same logical bundle encoded with the other byte order
    parser,     \* the LPAKParser instance, the position of its file and its frame
    action,     \* "list" or "extract" (cli: --list / --extract)
    include,    \* glob pattern as code points, or None (cli: --filter)
    overwrite,  \* BOOLEAN (cli: --overwrite)
    fs,         \* regular files of the current directory: path -> content
    stdout,     \* lines printed so far
    j,          \* number of file objects the consumer's for loop has taken
    status,     \* "running", "done", or "raised" (uncaught exception)
    exc         \* the uncaught exception, "" when none

vars == <<file, twin, parser, action, include, overwrite, fs, stdout, j, status, exc>>

-----------------------------------------------------------------------------
(* Program constants *)

size_of_file_record == 20
NameFieldLen == 255
PostFullThrottle == 16320

LPAK == <<76, 80, 65, 75>>
KAPL == <<75, 65, 80, 76>>

None == <<-1>>

\* Exceptions, told apart by type and message as a caller would.
NotLPAK == "ValueError: Not a LPAK file"
PostFT == "ValueError: Post-Full Throttle file format no supported"
StructError == "struct.error"
UnicodeDecodeError == "UnicodeDecodeError"
FileExistsError == "FileExistsError"
IsADirectoryError == "IsADirectoryError"

-----------------------------------------------------------------------------
(* Byte-level helpers *)

Min(a, b) == IF a < b THEN a ELSE b

\* file.read(n) at position pos: at most n bytes, fewer at end of file.
read(f, pos, n) ==
    IF pos >= Len(f) \/ n <= 0 THEN <<>> ELSE SubSeq(f, pos + 1, Min(pos + n, Len(f)))

RECURSIVE big_endian(_)
big_endian(b) ==
    IF b = <<>> THEN 0 ELSE big_endian(SubSeq(b, 1, Len(b) - 1)) * 256 + b[Len(b)]

RECURSIVE little_endian(_)
little_endian(b) ==
    IF b = <<>> THEN 0 ELSE b[1] + 256 * little_endian(Tail(b))

\* Variant: a 16-bit field is always taken as big-endian.
to_int_short_big(e, b) ==
    IF e = ">" \/ Len(b) = 2 THEN big_endian(b) ELSE little_endian(b)

\* struct's decoding of one unsigned field under the "<" or ">" prefix.
to_int(e, b) == IF e = ">" THEN big_endian(b) ELSE little_endian(b)

\* struct.calcsize of the formats the parser uses (no padding under < and >).
width(fmt) == CASE fmt = "H" -> 2 [] fmt = "I" -> 4 [] fmt = "255s" -> NameFieldLen

\* Variant: a short read is padded with null bytes instead of failing.
unpack_padded(e, f, pos, fmt, n) ==
    LET size == n * width(fmt)
        got  == read(f, pos, size)
        data == got \o [k \in 1..(size - Len(got)) |-> 0]
    IN  [ok   |-> TRUE,
         pos  |-> pos + Len(got),
         vals |-> [k \in 1..n |->
                     IF fmt = "255s" THEN data
                     ELSE to_int(e, SubSeq(data, (k - 1) * width(fmt) + 1, k * width(fmt)))]]

\* LPAKParser.unpack for the format fmt * n, the file being at position pos:
\* reads calcsize bytes and fails when fewer are left.
unpack(e, f, pos, fmt, n) ==
    LET size == n * width(fmt)
        data == read(f, pos, size)
    IN  IF Len(data) < size
        THEN [ok |-> FALSE, pos |-> pos + Len(data), vals |-> <<>>]
        ELSE [ok   |-> TRUE,
              pos  |-> pos + size,
              vals |-> [k \in 1..n |->
                          IF fmt = "255s" THEN data
                          ELSE to_int(e, SubSeq(data, (k - 1) * width(fmt) + 1, k * width(fmt)))]]

\* The least element of a non-empty set of integers.
least(S) == CHOOSE m \in S : \A n \in S : m <= n

\* bytes.split(b"\0")[0]
before_null(b) ==
    LET nulls == {m \in 1..Len(b) : b[m] = 0}
    IN  IF nulls = {} THEN b ELSE SubSeq(b, 1, least(nulls) - 1)

\* Strict UTF-8 decoding, character by character.  ok is FALSE for an
\* ill-formed sequence.
RECURSIVE decode_chars(_)
decode_chars(b) ==
    IF b = <<>> THEN [ok |-> TRUE, text |-> <<>>]
    ELSE
      LET c == b[1]
          n == IF c < 128 THEN 1
               ELSE IF c \in 194..223 THEN 2
               ELSE IF c \in 224..239 THEN 3
               ELSE IF c \in 240..244 THEN 4
               ELSE 0
          wellformed ==
              /\ n > 0
              /\ Len(b) >= n
              /\ \A k \in 2..n : b[k] \in 128..191
              /\ (c = 224 => b[2] >= 160)
              /\ (c = 237 => b[2] <= 159)
              /\ (c = 240 => b[2] >= 144)
              /\ (c = 244 => b[2] <= 143)
          cp == CASE n = 1 -> c
                  [] n = 2 -> (c - 192) * 64 + (b[2] - 128)
                  [] n = 3 -> (c - 224) * 4096 + (b[2] - 128) * 64 + (b[3] - 128)
                  [] n = 4 -> (c - 240) * 262144 + (b[2] - 128) * 4096
                              + (b[3] - 128) * 64 + (b[4] - 128)
          rest == decode_chars(SubSeq(b, n + 1, Len(b)))
      IN  IF ~wellformed THEN [ok |-> FALSE, text |-> <<>>]
          ELSE IF rest.ok THEN [ok |-> TRUE, text |-> <<cp>> \o rest.text]
          ELSE rest

\* bytes.decode(): strict UTF-8.  A long string is decoded in two halves, cut
\* at a byte that is no continuation byte (a character starts there if the
\* string is well-formed, and four continuation bytes in a row are ill-formed),
\* which keeps the evaluation shallow and gives what decode_chars gives.
RECURSIVE decode(_)
decode(b) ==
    IF Len(b) <= 8 THEN decode_chars(b)
    ELSE
      LET mid    == Len(b) \div 2
          starts == {m \in (mid + 1)..(mid + 4) : b[m] \notin 128..191}
          left   == decode(SubSeq(b, 1, least(starts) - 1))
          right  == decode(SubSeq(b, least(starts), Len(b)))
      IN  IF starts = {} \/ ~left.ok \/ ~right.ok THEN [ok |-> FALSE, text |-> <<>>]
          ELSE [ok |-> TRUE, text |-> left.text \o right.text]

-----------------------------------------------------------------------------
(* LPAKParser *)

FileObject(offset, size, compressed_size, compressed, filename) ==
    [offset |-> offset, size |-> size, compressed_size |-> compressed_size,
     compressed |-> compressed, filename |-> filename]

\* The parser before the first statement of __init__.
new_parser ==
    [pc |-> "__init__", err |-> "", pos |-> 0, endianness |-> "",
     file_objects |-> <<>>,
     start_of_file_entries |-> 0, start_of_file_names |-> 0, start_of_data |-> 0,
     size_of_file_entries |-> 0, num_files |-> 0,
     i |-> 0, current_name_offset |-> 0, entry |-> <<>>]

raise(p, e) == [p EXCEPT !.pc = "raised", !.err = e]

\* Variant: every tag other than KAPL selects big-endian.
endianness_any(tag) ==
    IF tag = KAPL THEN "<" ELSE ">"

\* The byte order the magic tag selects, "" when it selects none.
endianness_of(tag) ==
    IF tag = LPAK THEN ">" ELSE IF tag = KAPL THEN "<" ELSE ""

\* __init__ up to the call of parse_files.
init(p, f) ==
    LET data == read(f, p.pos, 4)
        q    == [p EXCEPT !.pos = p.pos + Len(data)]
    IN  IF Len(data) < 4 THEN raise(q, StructError)
        ELSE IF endianness_of(data) = "" THEN raise(q, NotLPAK)
        ELSE [q EXCEPT !.endianness = endianness_of(data), !.pc = "parse_files"]

\* Variant: the version 16320 itself is accepted.
version_after(version) == version > PostFullThrottle

\* The version check of parse_files.
version_unsupported(version) == version >= PostFullThrottle

\* parse_files up to the call of parse_files_v1.
parse_files(p, f) ==
    LET u == unpack(p.endianness, f, 6, "H", 1)
        q == [p EXCEPT !.pos = u.pos]
    IN  IF ~u.ok THEN raise(q, StructError)
        ELSE IF version_unsupported(u.vals[1]) THEN raise(q, PostFT)
        ELSE [q EXCEPT !.pc = "parse_files_v1"]

\* Variant: a partial entry record counts as a file.
num_files_ceil(size) == (size + size_of_file_record - 1) \div size_of_file_record

\* size_of_file_entries // size_of_file_record
num_files_of(size) == size \div size_of_file_record

\* parse_files_v1 up to the for loop.
parse_files_v1(p, f) ==
    LET u == unpack(p.endianness, f, 12, "I", 7)
    IN  IF ~u.ok THEN raise([p EXCEPT !.pos = u.pos], StructError)
        ELSE [p EXCEPT !.start_of_file_entries = u.vals[1],
                       !.start_of_file_names = u.vals[2],
                       !.start_of_data = u.vals[3],
                       !.size_of_file_entries = u.vals[5],
                       !.num_files = num_files_of(u.vals[5]),
                       !.pos = u.vals[1],
                       !.current_name_offset = 0,
                       !.i = 0,
                       !.pc = "for"]

\* Head of the for loop and the first half of its body: the entry record.
for_entry(p, f) ==
    IF p.i >= p.num_files THEN [p EXCEPT !.pc = "returned"]
    ELSE
      LET u == unpack(p.endianness, f,
                      p.start_of_file_entries + p.i * size_of_file_record, "I", 5)
          q == [p EXCEPT !.pos = u.pos]
      IN  IF ~u.ok THEN raise(q, StructError)
          ELSE [q EXCEPT !.entry = u.vals, !.pc = "name"]

\* Variant: the name is read at the name_offset the entry stores.
name_position_stored(p) == p.start_of_file_names + p.entry[2]

\* Where the name of the current entry is read.
name_position(p) == p.start_of_file_names + p.current_name_offset

\* current_name_offset += len(file_name) + 1
next_name_offset(current, file_name) == current + Len(file_name) + 1

\* Variant: the offset is left relative to the data region.
file_object_relative(p, file_name) ==
    FileObject(p.entry[1], p.entry[3], p.entry[4], p.entry[5] # 0, file_name)

\* The FileObject of the current entry, its name decoded.
file_object(p, file_name) ==
    FileObject(p.entry[1] + p.start_of_data, p.entry[3], p.entry[4], p.entry[5] # 0,
               file_name)

\* Second half of the loop body: the name, and the append.
for_name(p, f) ==
    LET u == unpack(p.endianness, f, name_position(p), "255s", 1)
        q == [p EXCEPT !.pos = u.pos]
    IN  IF ~u.ok THEN raise(q, StructError)
        ELSE
          LET file_name == before_null(u.vals[1])
              r == [q EXCEPT !.current_name_offset =
                                 next_name_offset(p.current_name_offset, file_name)]
              d == decode(file_name)
          IN  IF ~d.ok THEN raise(r, UnicodeDecodeError)
              ELSE [r EXCEPT !.file_objects = Append(p.file_objects, file_object(p, d.text)),
                             !.i = p.i + 1,
                             !.pc = "for"]

\* One step of the constructor.
step(p, f) ==
    CASE p.pc = "__init__" -> init(p, f)
      [] p.pc = "parse_files" -> parse_files(p, f)
      [] p.pc = "parse_files_v1" -> parse_files_v1(p, f)
      [] p.pc = "for" -> for_entry(p, f)
      [] p.pc = "name" -> for_name(p, f)
      [] OTHER -> p

\* LPAKParser(f) run to its end: pc is "returned" or "raised".
RECURSIVE run(_, _)
run(p, f) == IF p.pc \in {"returned", "raised"} THEN p ELSE run(step(p, f), f)

LPAKParser(f) == run(new_parser, f)

-----------------------------------------------------------------------------
(* Bundles: the inputs.  A logical bundle gives the values of the fields;  *)
(* bundle_bytes lays them out as section 6 of the specification describes, *)
(* in either byte order.  Field values stay below 2^31, the range of the   *)
(* model checker's integers; Python's integers do not overflow.            *)

MaxFiles == 3      \* entries in an entry table
MaxCut == 2        \* bytes missing at the end of a truncated bundle
MaxData == 6       \* bytes of the short data region
Gap == 2           \* bytes between the header and the entry table

HeaderLen == 12 + 7 * 4

pack_int(e, v, w) ==
    [k \in 1..w |-> IF e = ">" THEN (v \div (256 ^ (w - k))) % 256
                                ELSE (v \div (256 ^ (k - 1))) % 256]

RECURSIVE concat(_)
concat(ss) == IF ss = <<>> THEN <<>> ELSE Head(ss) \o concat(Tail(ss))

pack_entry(e, en) == concat([k \in 1..5 |-> pack_int(e, en[k], 4)])

\* The name table: each name followed by its terminator.
name_table(names) == concat([k \in 1..Len(names) |-> names[k] \o <<0>>])

\* Payload bytes: letters, so that different ranges differ.
data_region(n) == [k \in 1..n |-> 65 + ((k - 1) % 26)]

\* The sections after the header are, in this order, the entry table, the name
\* table and the data region, or, when b.entries_last, the name table, the data
\* region and the entry table.
bundle_bytes(b, e) ==
    LET names   == name_table(b.names)
        entries == concat([k \in 1..Len(b.entries) |-> pack_entry(e, b.entries[k])])
        first   == HeaderLen + Gap
        soe     == IF b.entries_last THEN first + Len(names) + b.data_len ELSE first
        son     == IF b.entries_last THEN first ELSE first + Len(entries)
        sod     == son + Len(names)
        magic   == IF b.tag = <<>> THEN (IF e = ">" THEN LPAK ELSE KAPL) ELSE b.tag
        all     == magic \o <<1, 2>> \o pack_int(e, b.version, 2) \o <<3, 4, 5, 6>>
                   \o concat(<<pack_int(e, soe, 4), pack_int(e, son, 4),
                               pack_int(e, sod, 4), pack_int(e, 17, 4),
                               pack_int(e, Len(entries) + b.rem, 4),
                               pack_int(e, 18, 4), pack_int(e, 19, 4)>>)
                   \o [k \in 1..Gap |-> 255]
                   \o (IF b.entries_last THEN <<>> ELSE entries)
                   \o names
                   \o data_region(b.data_len)
                   \o (IF b.entries_last THEN entries ELSE <<>>)
        keep    == IF b.keep >= 0 THEN Min(b.keep, Len(all))
                   ELSE Len(all) - Min(b.lose, Len(all))
    IN  SubSeq(all, 1, keep)

\* Entries: <<offset, name_offset, size, compressed_size, compressed>>.
EntryKinds ==
    << <<0, 0, 3, 5, 0>>,                \* stored as is, inside the data region
       <<2, 0, 2, 1, 256>>,              \* compressed
       <<4, 9, 300, 300, 0>>,            \* runs past the end of the bundle
       <<2147483000, 1, 1, 1, 0>> >>     \* starts past the end of the bundle

EntryTables ==
    { [k \in 1..n |-> EntryKinds[((s + k - 1) % Len(EntryKinds)) + 1]] :
        n \in 0..MaxFiles, s \in 0..(Len(EntryKinds) - 1) }

txt == <<46, 116, 120, 116>>

NameTables ==
    { << <<97>> \o txt, <<98, 98>> \o txt, <<99>> >>,      \* a.txt bb.txt c
      << <<>>, <<97>>, <<97>> >>,                          \* empty name, a, a
      << <<97>>, <<195, 169>> >>,                          \* a, e-acute; two names only
      << <<98>>, <<255>>, <<97>> >>,                       \* b, ill-formed UTF-8, a
      << [k \in 1..NameFieldLen |-> 121], <<98>> >>,       \* 255 bytes, b
      << [k \in 1..(NameFieldLen + 1) |-> 120], <<98>> >> } \* 256 bytes, b

Versions == {0, 16319, 16320, 48959, 49215, 65535}

\* <<>> stands for the magic of the byte order.
Tags == {<<>>, <<88, 88, 88, 88>>, <<76, 80, 65, 88>>}

KeepLens == {0, 3, 4, 7, 8, 39, 40}

Bundle(tag, version, entries, names, rem, data_len, keep, lose, entries_last) ==
    [tag |-> tag, version |-> version, entries |-> entries, names |-> names,
     rem |-> rem, data_len |-> data_len, keep |-> keep, lose |-> lose,
     entries_last |-> entries_last]

\* One small bundle: under every tag, whole and cut to short prefixes; and
\* whole under the valid tag with every version.
HeadBundles ==
    { Bundle(t, 1, <<EntryKinds[1]>>, << <<97>> >>, 0, NameFieldLen, k, 0, FALSE) :
        t \in Tags, k \in KeepLens \cup {-1} }
    \cup { Bundle(<<>>, v, <<EntryKinds[1]>>, << <<97>> >>, 0, NameFieldLen, -1, 0, FALSE) :
             v \in Versions }

\* <<remainder of size_of_file_entries, length of the data region, bytes lost
\* at the end, entry table last>>
Shapes ==
    { <<0, NameFieldLen + MaxData, c, FALSE>> : c \in 0..MaxCut }
    \cup { <<19, NameFieldLen + MaxData, 0, FALSE>>, <<0, MaxData, 0, FALSE>>,
           <<0, NameFieldLen + MaxData, 0, TRUE>>, <<0, NameFieldLen + MaxData, 1, TRUE>> }

BodyBundles ==
    { Bundle(<<>>, 1, en, nm, sh[1], sh[2], -1, sh[3], sh[4]) :
        en \in EntryTables, nm \in NameTables, sh \in Shapes }

Bundles == HeadBundles \cup BodyBundles

other(e) == IF e = ">" THEN "<" ELSE ">"

-----------------------------------------------------------------------------
(* The consumers: filter_file_objects, action_list, action_extract *)

\* fnmatch.fnmatchcase for patterns made of literals, * and ?
RECURSIVE fnmatchcase(_, _)
fnmatchcase(name, pat) ==
    IF pat = <<>> THEN name = <<>>
    ELSE IF pat = <<42>> THEN TRUE
    ELSE IF pat[1] = 42
         THEN fnmatchcase(name, Tail(pat))
              \/ (name # <<>> /\ fnmatchcase(Tail(name), pat))
    ELSE IF pat[1] = 63
         THEN name # <<>> /\ fnmatchcase(Tail(name), Tail(pat))
    ELSE name # <<>> /\ name[1] = pat[1] /\ fnmatchcase(Tail(name), Tail(pat))

\* Whether filter_file_objects lets the file object through.
selected(inc, fo) == inc = None \/ fnmatchcase(fo.filename, inc)

\* pathlib.Path(filename), for names without a separator.
Path(filename) == IF filename = <<>> THEN <<46>> ELSE filename

\* The paths that are directories: "." and "..".
is_dir(path) == path \in {<<46>>, <<46, 46>>}

\* Variant: the payload is read where the file happens to be.
read_payload_no_seek(f, pos, fo) ==
    [data |-> read(f, pos, fo.size), pos |-> pos + Len(read(f, pos, fo.size))]

\* lpak.seek(f.offset); lpak.read(f.size), the file being at pos.
read_payload(f, pos, fo) ==
    [data |-> read(f, fo.offset, fo.size),
     pos  |-> fo.offset + Len(read(f, fo.offset, fo.size))]

\* The exception the body of the extract loop raises for the file object,
\* "" when it raises none: touch(exist_ok=overwrite), then write_bytes.
extract_error(files, ow, fo) ==
    IF is_dir(Path(fo.filename))
    THEN (IF ow THEN IsADirectoryError ELSE FileExistsError)
    ELSE IF Path(fo.filename) \in DOMAIN files /\ ~ow THEN FileExistsError
    ELSE ""

\* Variant: compressed file objects are extracted like the others.
skips_none(fo) == FALSE

\* Whether the extract loop skips the file object.
skips(fo) == fo.compressed

\* <<action, include, overwrite, files of the current directory>>
Configs ==
    { <<"list", <<97, 42>>, FALSE, <<>> >>,                    \* -l -F 'a*'
      <<"extract", <<97, 42>>, FALSE, (<<97>> :> <<33>>)>>,    \* -x -F 'a*', a exists
      <<"extract", None, TRUE, (<<97>> :> <<33>>)>>,           \* -x -o, a exists
      <<"extract", None, FALSE, <<>> >> }                      \* -x

-----------------------------------------------------------------------------
(* The state machine *)

Init ==
    \E b \in Bundles, e \in {">", "<"}, c \in Configs :
        /\ file = bundle_bytes(b, e)
        /\ twin = bundle_bytes(b, other(e))
        /\ parser = new_parser
        /\ action = c[1]
        /\ include = c[2]
        /\ overwrite = c[3]
        /\ fs = c[4]
        /\ stdout = <<>>
        /\ j = 0
        /\ status = "running"
        /\ exc = ""

\* The constructor LPAKParser(lpak) has taken a step that left it as p; an
\* exception it raises is caught nowhere and ends the action.
Constructing(p) ==
    /\ parser' = p
    /\ IF p.pc = "raised"
       THEN status' = "raised" /\ exc' = p.err
       ELSE UNCHANGED <<status, exc>>
    /\ UNCHANGED <<file, twin, action, include, overwrite, fs, stdout, j>>

Magic ==
    /\ status = "running" /\ parser.pc = "__init__"
    /\ Constructing(init(parser, file))

Version ==
    /\ status = "running" /\ parser.pc = "parse_files"
    /\ Constructing(parse_files(parser, file))

Header ==
    /\ status = "running" /\ parser.pc = "parse_files_v1"
    /\ Constructing(parse_files_v1(parser, file))

Entry ==
    /\ status = "running" /\ parser.pc = "for"
    /\ Constructing(for_entry(parser, file))

Name ==
    /\ status = "running" /\ parser.pc = "name"
    /\ Constructing(for_name(parser, file))

\* The consumer's loop is at file object j + 1.
AtObject ==
    /\ status = "running"
    /\ parser.pc = "returned"
    /\ j < Len(parser.file_objects)

current == parser.file_objects[j + 1]

\* filter() drops a file object the pattern does not match.
Filtered ==
    /\ AtObject
    /\ ~selected(include, current)
    /\ j' = j + 1
    /\ UNCHANGED <<file, twin, parser, action, include, overwrite, fs, stdout, status, exc>>

ListPrint ==
    /\ AtObject
    /\ action = "list"
    /\ selected(include, current)
    /\ stdout' = Append(stdout, <<"name", current.filename>>)
    /\ j' = j + 1
    /\ UNCHANGED <<file, twin, parser, action, include, overwrite, fs, status, exc>>

ExtractSkip ==
    /\ AtObject
    /\ action = "extract"
    /\ selected(include, current)
    /\ skips(current)
    /\ stdout' = Append(stdout, <<"skipping", current.filename>>)
    /\ j' = j + 1
    /\ UNCHANGED <<file, twin, parser, action, include, overwrite, fs, status, exc>>

ExtractFile ==
    /\ AtObject
    /\ action = "extract"
    /\ selected(include, current)
    /\ ~skips(current)
    /\ extract_error(fs, overwrite, current) = ""
    /\ LET r == read_payload(file, parser.pos, current)
       IN  /\ parser' = [parser EXCEPT !.pos = r.pos]
           /\ fs' = (Path(current.filename) :> r.data) @@ fs
    /\ j' = j + 1
    /\ UNCHANGED <<file, twin, action, include, overwrite, stdout, status, exc>>

\* touch or write_bytes raises: the exception ends action_extract.
ExtractRaise ==
    /\ AtObject
    /\ action = "extract"
    /\ selected(include, current)
    /\ ~skips(current)
    /\ extract_error(fs, overwrite, current) # ""
    /\ exc' = extract_error(fs, overwrite, current)
    /\ status' = "raised"
    /\ parser' = IF exc' = IsADirectoryError
                 THEN [parser EXCEPT !.pos = read_payload(file, parser.pos, current).pos]
                 ELSE parser
    /\ UNCHANGED <<file, twin, action, include, overwrite, fs, stdout, j>>

Finish ==
    /\ status = "running"
    /\ parser.pc = "returned"
    /\ j = Len(parser.file_objects)
    /\ status' = "done"
    /\ UNCHANGED <<file, twin, parser, action, include, overwrite, fs, stdout, j, exc>>

Next ==
    \/ Magic \/ Version \/ Header \/ Entry \/ Name
    \/ Filtered \/ ListPrint \/ ExtractSkip \/ ExtractFile \/ ExtractRaise
    \/ Finish

Spec == Init /\ [][Next]_vars

-----------------------------------------------------------------------------
(* What the claims speak of, read off the bytes of the bundle *)

tag == read(file, 0, 4)

valid_tag == Len(file) >= 4 /\ tag \in {LPAK, KAPL}

\* The unsigned fields at byte offset off, in the byte order the tag names.
field16(off) ==
    IF tag = LPAK THEN file[off + 1] * 256 + file[off + 2]
    ELSE file[off + 1] + file[off + 2] * 256

field32(off) ==
    IF tag = LPAK
    THEN file[off + 1] * 16777216 + file[off + 2] * 65536 + file[off + 3] * 256 + file[off + 4]
    ELSE file[off + 1] + file[off + 2] * 256 + file[off + 3] * 65536 + file[off + 4] * 16777216

\* The parser has gone past the call of parse_files_v1's header read.
header_read == parser.pc \in {"for", "name", "returned"}

-----------------------------------------------------------------------------
\* C1: the first 4 bytes decide the byte order: LPAK selects big-endian and
\* KAPL little-endian for every field decoded later (the header fields and the
\* entry fields are the big-endian, resp. little-endian, value of their bytes);
\* any other 4-byte tag ends the action with the "Not a LPAK file" error, with
\* no byte order chosen, no file object built, nothing listed or extracted, and
\* the file left at position 4: no other field was read.
C1_MagicSelectsByteOrder ==
    (parser.pc # "__init__" /\ Len(file) >= 4) =>
        /\ tag = LPAK => parser.endianness = ">"
        /\ tag = KAPL => parser.endianness = "<"
        /\ (valid_tag /\ header_read) =>
              /\ parser.start_of_file_entries = field32(12)
              /\ parser.start_of_file_names = field32(16)
              /\ parser.start_of_data = field32(20)
              /\ parser.size_of_file_entries = field32(28)
        /\ (valid_tag /\ parser.pc = "name") =>
              \A k \in 1..5 :
                  parser.entry[k] =
                      field32(parser.start_of_file_entries
                              + parser.i * size_of_file_record + 4 * (k - 1))
        /\ ~valid_tag =>
              /\ status = "raised" /\ exc = NotLPAK
              /\ parser.pc = "raised" /\ parser.err = NotLPAK
              /\ parser.endianness = ""
              /\ parser.file_objects = <<>>
              /\ parser.pos = 4
              /\ stdout = <<>> /\ j = 0

\* A source with the tag XXXX has been refused.
C1_Witness == tag = <<88, 88, 88, 88>> /\ Len(file) > HeaderLen /\ exc = NotLPAK

\* C2: with a valid tag, the 16-bit field at offset 6 decides: at 16320 and
\* above the action ends with the Post-Full Throttle error, which is not the
\* "Not a LPAK file" error, and the file is left at position 8, the header and
\* the entry table unread; below 16320 parse_files_v1 runs: the parser is in it,
\* has returned from it, or failed in it at or after its read at offset 12.
C2_VersionDecides ==
    (valid_tag /\ Len(file) >= 8 /\ parser.pc \notin {"__init__", "parse_files"}) =>
        IF field16(6) >= 16320
        THEN /\ status = "raised" /\ exc = PostFT /\ exc # NotLPAK
             /\ parser.pc = "raised"
             /\ parser.pos = 8
             /\ parser.file_objects = <<>>
             /\ parser.start_of_file_entries = 0 /\ parser.size_of_file_entries = 0
             /\ stdout = <<>> /\ j = 0
        ELSE /\ parser.err \notin {PostFT, NotLPAK}
             /\ parser.pc = "raised" => parser.pos >= 12

\* A bundle whose version field is exactly 16320 has been refused.
C2_Witness == valid_tag /\ Len(file) > HeaderLen /\ field16(6) = 16320 /\ exc = PostFT

\* C3: num_files is size_of_file_entries (the 32-bit field at offset 28)
\* floor-divided by 20, and a bundle that parses has that many file objects,
\* also when the field is no multiple of 20; when the quotient is 0 (valid tag,
\* supported version, whole header present) the parser does not fail and the
\* list is empty.
C3_RecordCount ==
    /\ (valid_tag /\ header_read) => parser.num_files = field32(28) \div 20
    /\ (valid_tag /\ parser.pc = "returned") =>
           Len(parser.file_objects) = field32(28) \div 20
    /\ (valid_tag /\ Len(file) >= HeaderLen /\ field16(6) < 16320
        /\ field32(28) \div 20 = 0) =>
           /\ parser.pc # "raised"
           /\ parser.file_objects = <<>>

\* A bundle whose size_of_file_entries is 2 * 20 + 19 has parsed into 2 file objects.
C3_Witness ==
    /\ parser.pc = "returned"
    /\ field32(28) = 2 * 20 + 19
    /\ Len(parser.file_objects) = 2

\* A bundle whose size_of_file_entries is 19 has parsed into the empty list.
C3_WitnessEmpty ==
    /\ parser.pc = "returned"
    /\ field32(28) = 19
    /\ parser.file_objects = <<>>

-----------------------------------------------------------------------------
(* The name table, read off the bytes *)

\* Position of the first null byte at or after position k, -1 when there is none.
scan(f, k) ==
    LET nulls == {m \in k..(Len(f) - 1) : f[m + 1] = 0}
    IN  IF k < 0 \/ nulls = {} THEN -1 ELSE least(nulls)

\* Position of the string that follows i terminated strings from pos on, -1 when
\* fewer than i are terminated.
RECURSIVE string_start(_, _, _)
string_start(f, pos, i) ==
    IF i = 0 THEN pos
    ELSE IF scan(f, pos) = -1 THEN -1
    ELSE string_start(f, scan(f, pos) + 1, i - 1)

terminated(f, pos) == scan(f, pos) # -1

\* The bytes of the terminated string at pos, its terminator left out.
string_at(f, pos) == SubSeq(f, pos + 1, scan(f, pos))

\* The i-th string (from 1) of the name table of the bundle.
nth_name(i) == string_at(file, string_start(file, field32(16), i - 1))

nth_terminated(i) == terminated(file, string_start(file, field32(16), i - 1))

objects == parser.file_objects

\* C4 as claimed: the bundle has parsed, so the filename of every file object
\* i is the i-th null-terminated string from start_of_file_names on.
C4_NthStringAlways ==
    parser.pc = "returned" =>
        \A i \in 1..Len(objects) :
            /\ nth_terminated(i)
            /\ decode(nth_name(i)).ok
            /\ objects[i].filename = decode(nth_name(i)).text

\* C4, amended: the bundle has parsed and each of the strings its entries
\* consume is terminated within 255 bytes, so the filename of every file object
\* i is the i-th null-terminated string from start_of_file_names on, whatever
\* the name_offset fields of the entries hold.
C4_NthString ==
    (/\ parser.pc = "returned"
     /\ \A i \in 1..Len(objects) :
            nth_terminated(i) /\ Len(nth_name(i)) <= NameFieldLen) =>
        \A i \in 1..Len(objects) :
            /\ decode(nth_name(i)).ok
            /\ objects[i].filename = decode(nth_name(i)).text

\* The table a.txt bb.txt c has been consumed by three entries whose
\* name_offset fields are 0, 0 and 9, not 0, 6 and 13.
C4_Witness ==
    /\ parser.pc = "returned"
    /\ Len(objects) = 3
    /\ objects[1].filename = <<97>> \o txt
    /\ objects[2].filename = <<98, 98>> \o txt
    /\ objects[3].filename = <<99>>
    /\ field32(parser.start_of_file_entries + 4) = 0
    /\ field32(parser.start_of_file_entries + size_of_file_record + 4) = 0
    /\ field32(parser.start_of_file_entries + 2 * size_of_file_record + 4) = 9

-----------------------------------------------------------------------------
\* C5: the constructor run on the encoding of the same logical bundle in the
\* other byte order (tag LPAK with big-endian fields against tag KAPL with
\* little-endian fields) ends the same way: both return, with equal lists of
\* file objects, or both raise, with the same exception.
C5_ByteOrderEquivalence ==
    parser.pc \in {"returned", "raised"} =>
        LET t == LPAKParser(twin)
        IN  /\ t.pc = parser.pc
            /\ t.err = parser.err
            /\ parser.pc = "returned" => t.file_objects = parser.file_objects

\* A big-endian bundle and its little-endian twin, parsed into two file objects.
C5_Witness ==
    /\ parser.pc = "returned"
    /\ tag = LPAK /\ read(twin, 0, 4) = KAPL
    /\ read(file, 6, 2) = <<0, 1>> /\ read(twin, 6, 2) = <<1, 0>>
    /\ Len(objects) = 2

-----------------------------------------------------------------------------
\* The read the parser is about to make needs more bytes than are left.
short_read ==
    CASE parser.pc = "__init__" -> Len(file) < 4
      [] parser.pc = "parse_files" -> Len(file) < 6 + 2
      [] parser.pc = "parse_files_v1" -> Len(file) < 12 + 7 * 4
      [] parser.pc = "for" ->
            /\ parser.i < parser.num_files
            /\ Len(file) < parser.start_of_file_entries
                            + (parser.i + 1) * size_of_file_record
      [] parser.pc = "name" ->
            Len(file) < parser.start_of_file_names + parser.current_name_offset
                        + NameFieldLen
      [] OTHER -> FALSE

\* C6: a read that needs more bytes than are left (tag, version, header, entry
\* record, or the 255-byte name field) ends the action at that read with
\* struct.error, and an action ended by struct.error has listed and extracted
\* nothing: its loop never took a file object.
C6_TruncationIsFatal ==
    /\ [][(status = "running" /\ short_read) =>
            (status' = "raised" /\ exc' = StructError /\ parser'.pc = "raised")]_vars
    /\ [](exc = StructError => (status = "raised" /\ stdout = <<>> /\ j = 0))

\* The entry table claims 3 entries, the third is cut short: struct.error, the
\* two file objects built so far never reach the consumer.
C6_Witness ==
    /\ exc = StructError
    /\ parser.num_files = 3 /\ Len(objects) = 2
    /\ Len(file) = parser.start_of_file_entries + 3 * size_of_file_record - 1
    /\ parser.pos = Len(file)
    /\ stdout = <<>> /\ j = 0

-----------------------------------------------------------------------------
\* The bytes of the bundle at positions from up to from + n - 1.
bytes_at(from, n) == [m \in 1..n |-> file[from + m]]

Max(a, b) == IF a > b THEN a ELSE b

\* C7 as claimed: reading the payload of a file object that is not compressed
\* gives exactly size bytes, those at offset .. offset + size - 1.
C7_PayloadAlways ==
    parser.pc = "returned" =>
        \A k \in 1..Len(objects) :
            ~objects[k].compressed =>
                /\ objects[k].offset + objects[k].size <= Len(file)
                /\ read_payload(file, parser.pos, objects[k]).data
                       = bytes_at(objects[k].offset, objects[k].size)

\* C7, amended: reading the payload of a file object that is not compressed
\* gives the bytes of the bundle from offset on, size of them or as many as are
\* left before the end of the bundle when those are fewer: exactly size bytes
\* when offset + size is within the bundle.  Reading again, from wherever the
\* first read left the file, gives the same bytes, and the file extraction
\* wrote last holds exactly these bytes.
C7_Payload ==
    parser.pc = "returned" =>
        /\ \A k \in 1..Len(objects) :
              ~objects[k].compressed =>
                LET fo == objects[k]
                    r  == read_payload(file, parser.pos, fo)
                    n  == Max(0, Min(fo.size, Len(file) - fo.offset))
                IN  /\ r.data = bytes_at(fo.offset, n)
                    /\ fo.offset + fo.size <= Len(file) => Len(r.data) = fo.size
                    /\ read_payload(file, r.pos, fo).data = r.data
        /\ (/\ action = "extract" /\ j > 0
            /\ selected(include, objects[j]) /\ ~objects[j].compressed) =>
              LET fo == objects[j]
              IN  /\ Path(fo.filename) \in DOMAIN fs
                  /\ fs[Path(fo.filename)] =
                         bytes_at(fo.offset, Max(0, Min(fo.size, Len(file) - fo.offset)))

\* A 3-byte payload inside the bundle has been extracted, the file having
\* been left elsewhere by the parser.
C7_Witness ==
    /\ parser.pc = "returned" /\ action = "extract" /\ j > 0
    /\ ~objects[j].compressed /\ objects[j].size = 3
    /\ objects[j].offset + 3 <= Len(file)
    /\ Path(objects[j].filename) \in DOMAIN fs
    /\ fs[Path(objects[j].filename)] = <<65, 66, 67>>

-----------------------------------------------------------------------------
\* The extract loop is at a selected file object.
AtSelected == AtObject /\ action = "extract" /\ selected(include, current)

\* Every selected, uncompressed file object among the first n has its file.
extracted(n) ==
    \A k \in 1..n :
        (selected(include, objects[k]) /\ ~objects[k].compressed) =>
            Path(objects[k].filename) \in DOMAIN fs

-----------------------------------------------------------------------------
\* Field k (from 0) of entry i (from 1) of the entry table.
entry_field(i, k) == field32(field32(12) + (i - 1) * size_of_file_record + 4 * k)

\* File object i is built from entry i of the entry table.
from_entry(i) ==
    /\ objects[i].offset = entry_field(i, 0) + field32(20)
    /\ objects[i].size = entry_field(i, 2)
    /\ objects[i].compressed_size = entry_field(i, 3)
    /\ objects[i].compressed = (entry_field(i, 4) # 0)
    /\ objects[i].offset >= 0

\* C9 as claimed: file object i is built from entry i, and its offset lies
\* within the bundle.
C9_RecordsInsideSource ==
    parser.pc = "returned" =>
        \A i \in 1..Len(objects) :
            from_entry(i) /\ objects[i].offset <= Len(file)

\* C9, amended: file object i is built from the i-th 20-byte entry at
\* start_of_file_entries + 20 * (i - 1): offset is the entry's offset plus
\* start_of_data, size and compressed_size are as decoded, compressed is true
\* exactly when the flag field is not zero, and offset is not negative.  (The
\* offset is not checked against the length of the bundle.)
C9_RecordsFromEntries ==
    parser.pc = "returned" => \A i \in 1..Len(objects) : from_entry(i)

\* Three entries have become three file objects, the third with flag 256.
C9_Witness ==
    /\ parser.pc = "returned" /\ Len(objects) = 3
    /\ entry_field(3, 4) = 256 /\ objects[3].compressed
    /\ entry_field(2, 4) = 0 /\ ~objects[2].compressed
    /\ objects[2].offset = parser.start_of_data /\ parser.start_of_data > 0
    /\ objects[1].offset = 2147483000 + parser.start_of_data

-----------------------------------------------------------------------------
\* C10 as claimed: the name of an entry is the bytes before the first null
\* byte among the up to 255 bytes at start_of_file_names + current_name_offset
\* (fewer at the end of the bundle), so when that null byte is there the name
\* resolves (it may still fail to decode as text), and current_name_offset
\* grows by the length of the name plus 1.
C10_NameResolves ==
    [][(status = "running" /\ parser.pc = "name") =>
        LET start == parser.start_of_file_names + parser.current_name_offset
            null  == scan(file, start)
        IN  (null # -1 /\ null - start < NameFieldLen) =>
              /\ parser'.err # StructError
              /\ parser'.current_name_offset
                    = parser.current_name_offset + (null - start) + 1]_vars

====
